---- MODULE Spec2Model ----
(***************************************************************************)
(* State-machine model of src/app.py (MaxlDruck 3D-print calculator).      *)
(*                                                                         *)
(* Persistent state: auth.db (users), global.db (materials, printers) and  *)
(* one SQLite file per sanitised username under user_dbs/ (projects and    *)
(* items tables).  Session state: st.session_state.  Every action is one   *)
(* user interaction: the handler that runs in the script run triggered by  *)
(* the interaction, together with the re-render that follows it.           *)
(*                                                                         *)
(* Units.  Money is fixed-point: stored costs are integer cents,           *)
(* price_per_kg is cents per kg, cost_per_hour is cents per hour, an       *)
(* accessory unit price is given in tenths of a cent.  Weights are grams,  *)
(* times are hours.  round(x, 2) is modelled on the exact quotient.        *)
(* Usernames are sequences of one-character strings so that the           *)
(* per-character sanitising of get_user_engine can be computed.            *)
(***************************************************************************)
EXTENDS Integers, Sequences, FiniteSets, TLC

VARIABLES
    users,               \* auth.db  users:      name -> password_hash
    materials,           \* global.db materials:  name -> price_per_kg
    printers,            \* global.db printers:   name -> cost_per_hour
    user_dbs,            \* user_dbs/: path -> [projects, items] tables
    username,            \* st.session_state.username
    current_items,       \* st.session_state.current_items (the draft)
    edit_idx,            \* st.session_state.edit_idx
    editing_project_id,  \* st.session_state.editing_project_id
    p_name,              \* st.session_state.p_name
    customer_name,       \* st.session_state.customer_name
    work_hours,          \* st.session_state.work_hours
    work_rate,           \* st.session_state.work_rate
    failed_filament_g,   \* st.session_state.failed_filament_g
    failed_material,     \* st.session_state.failed_material
    msg                  \* what the last script run showed or raised

vars == <<users, materials, printers, user_dbs, username, current_items,
          edit_idx, editing_project_id, p_name, customer_name, work_hours,
          work_rate, failed_filament_g, failed_material, msg>>

authVars    == <<users>>
catalogVars == <<materials, printers>>
draftVars   == <<current_items, edit_idx, editing_project_id>>
fieldVars   == <<p_name, customer_name, work_hours, work_rate,
                 failed_filament_g, failed_material>>

-----------------------------------------------------------------------------
(* Python values *)

NoUser == <<>>       \* username None (an empty name is falsy as well)
NoIdx == -1          \* edit_idx None; indexes are 0-based as in the source
NoId == 0            \* editing_project_id None (0 is falsy as well; ids start at 1)

OkMsg == "ok"
ExistsMsg == "Benutzer existiert bereits."
LoginFailedMsg == "Anmeldung fehlgeschlagen."
IntegrityError == "IntegrityError: UNIQUE constraint failed"

-----------------------------------------------------------------------------
(* Tables as functions from key to row *)

Max(S) == CHOOSE x \in S : \A y \in S : y <= x

Put(f, k, v) == [x \in (DOMAIN f) \cup {k} |-> IF x = k THEN v ELSE f[x]]

Drop(f, K) == [x \in (DOMAIN f) \ K |-> f[x]]

\* SQLite INTEGER PRIMARY KEY without AUTOINCREMENT: the next rowid is one
\* more than the largest rowid currently in the table.
NextRowid(ids) == IF ids = {} THEN 1 ELSE Max(ids) + 1

\* The ids of a table in ascending order (the order rows are read back in).
RECURSIVE SortedIds(_)
SortedIds(S) ==
    IF S = {} THEN <<>>
    ELSE LET m == CHOOSE x \in S : \A y \in S : x <= y
         IN <<m>> \o SortedIds(S \ {m})

-----------------------------------------------------------------------------
(* Password helpers *)

hash_pw(pw) == [scheme |-> "pbkdf2_sha256", secret |-> pw]

\* A verification that accepts every password.
verify_pw_AnyPassword(pw, hashval) == TRUE

verify_pw(pw, hashval) == hashval.secret = pw

-----------------------------------------------------------------------------
(* Per-user database files *)

AlnumChars == {"a", "b", "A", "B"}

Lower(c) == CASE c = "A" -> "a" [] c = "B" -> "b" [] OTHER -> c

KeepChar(c) == c \in AlnumChars \/ c \in {"_", "-"}

\* The path of the user's database file, user_<safe_name>.db: the kept
\* characters of the username, lowercased.
get_user_engine(name) ==
    LET kept == SelectSeq(name, KeepChar)
    IN  [i \in 1..Len(kept) |-> Lower(kept[i])]

\* The columns of the projects table that the migration of ensure_user_db
\* knows, in the order it adds them, and all the columns the Project class
\* maps besides the key (created_at is never read by the program).
LaterCols == <<"customer_name", "work_hours", "work_rate",
               "failed_filament_g", "failed_material">>

AllCols == {"name"} \cup {LaterCols[k] : k \in 1..Len(LaterCols)}

\* What a row that existed before ALTER TABLE ... ADD COLUMN reads in the new
\* column: the DEFAULT 0.0 of the REAL columns, NULL (here "", the value a
\* NULL reads as) in the TEXT columns.
ColumnDefault(c) ==
    IF c \in {"work_hours", "work_rate", "failed_filament_g"} THEN 0 ELSE ""

\* A file as create_all makes it: the current schema, empty tables.
EmptyDb == [cols |-> AllCols, projects |-> <<>>, items |-> <<>>]

\* An upgrade step that makes the column anew whether it is there or not:
\* every row reads the default in it afterwards.
AddColumn_Overwrites(db, c) ==
    [db EXCEPT
        !.cols = @ \cup {c},
        !.projects = [p \in DOMAIN @ |->
                        [x \in (DOMAIN @[p]) \cup {c} |->
                            IF x = c THEN ColumnDefault(c) ELSE @[p][x]]]]

\* "if c not in cols: ALTER TABLE projects ADD COLUMN c": the column is added
\* and every existing row reads its default there.  The driver opens no
\* transaction for DDL, so the statement is durable without a commit.
AddColumn(db, c) ==
    IF c \in db.cols THEN db
    ELSE [db EXCEPT
            !.cols = @ \cup {c},
            !.projects = [p \in DOMAIN @ |->
                            [x \in (DOMAIN @[p]) \cup {c} |->
                                IF x = c THEN ColumnDefault(c) ELSE @[p][x]]]]

\* A migration that knows every later column but failed_material.
RECURSIVE Migrate_ForgetsFailedMaterial(_, _)
Migrate_ForgetsFailedMaterial(db, k) ==
    IF k >= Len(LaterCols) THEN db
    ELSE Migrate_ForgetsFailedMaterial(AddColumn(db, LaterCols[k]), k + 1)

\* The five ADD COLUMN checks of ensure_user_db, from the k-th on.
RECURSIVE Migrate(_, _)
Migrate(db, k) ==
    IF k > Len(LaterCols) THEN db
    ELSE Migrate(AddColumn(db, LaterCols[k]), k + 1)

\* create_all on the user's file creates the file with empty tables when it
\* does not exist and leaves existing tables alone; the migration then adds
\* the columns an existing projects table lacks.
ensure_user_db(dbs, name) ==
    LET path == get_user_engine(name)
    IN  IF path \in DOMAIN dbs
        THEN [dbs EXCEPT ![path] = Migrate(@, 1)]
        ELSE Put(dbs, path, EmptyDb)

\* Every script run of a logged-in session opens the user's ledger in tab_calc.
Render(dbs, name) == IF name # NoUser THEN ensure_user_db(dbs, name) ELSE dbs

\* tab_calc stops with an IndexError at the edit_val lookup when the edit cursor
\* is past the end of the draft; nothing below that line is rendered.
CalcCrash ==
    username # NoUser /\ edit_idx # NoIdx /\ edit_idx >= Len(current_items)

CalcOk == username # NoUser /\ ~CalcCrash

TabUsersOk == ~CalcCrash

UserDb == user_dbs[get_user_engine(username)]

\* proj.items: the items rows of a project, in rowid order.
ProjItemIds(db, pid) ==
    SortedIds({i \in DOMAIN db.items : db.items[i].project_id = pid})

-----------------------------------------------------------------------------
(* Sidebar: login, registration, logout *)

\* "Anmelden": only rendered while nobody is logged in.
Login(u, pw) ==
    /\ username = NoUser
    /\ u # <<>> /\ pw # ""
    /\ IF u \in DOMAIN users /\ verify_pw(pw, users[u])
       THEN /\ username' = u
            /\ user_dbs' = Render(ensure_user_db(user_dbs, u), u)
            /\ msg' = OkMsg
       ELSE /\ msg' = LoginFailedMsg
            /\ UNCHANGED <<username, user_dbs>>
    /\ UNCHANGED <<authVars, catalogVars, draftVars, fieldVars>>

\* A registration that stores the account without looking for the name first.
RegisterUser_NoExistsCheck(u, pw) ==
    /\ u # <<>> /\ pw # ""
    /\ users' = Put(users, u, hash_pw(pw))
    /\ username' = u
    /\ user_dbs' = Render(ensure_user_db(user_dbs, u), u)
    /\ msg' = OkMsg
    /\ UNCHANGED <<catalogVars, draftVars, fieldVars>>

\* The registration of both paths: a name that exists is refused with a
\* warning; otherwise the account is stored, its ledger is provisioned and
\* the session is logged in as the new user.
RegisterUser(u, pw) ==
    /\ u # <<>> /\ pw # ""
    /\ IF u \in DOMAIN users
       THEN /\ msg' = ExistsMsg
            /\ UNCHANGED <<users, username, user_dbs>>
       ELSE /\ users' = Put(users, u, hash_pw(pw))
            /\ username' = u
            /\ user_dbs' = Render(ensure_user_db(user_dbs, u), u)
            /\ msg' = OkMsg
    /\ UNCHANGED <<catalogVars, draftVars, fieldVars>>

\* "Registrieren" in the sidebar: only rendered while nobody is logged in.
RegisterSidebar(u, pw) ==
    /\ username = NoUser
    /\ RegisterUser(u, pw)

\* "Abmelden".
Logout ==
    /\ username # NoUser
    /\ username' = NoUser
    /\ msg' = OkMsg
    /\ UNCHANGED <<authVars, catalogVars, user_dbs, draftVars, fieldVars>>

-----------------------------------------------------------------------------
(* Sidebar: Stammdaten *)

\* Session.merge of an object without primary key: merge looks the row up by
\* primary key only, finds none and adds a new row; the INSERT of a name that
\* is already stored violates the UNIQUE constraint and the commit raises.
MergeByName(table, n, v) ==
    IF n \in DOMAIN table
    THEN [table |-> table, raised |-> TRUE]
    ELSE [table |-> Put(table, n, v), raised |-> FALSE]

\* "Mat speichern".
UpsertMaterial(m_n, m_p) ==
    LET r == MergeByName(materials, m_n, m_p)
    IN  /\ materials' = r.table
        /\ msg' = IF r.raised THEN IntegrityError ELSE OkMsg
        /\ user_dbs' = IF r.raised THEN user_dbs ELSE Render(user_dbs, username)
        /\ UNCHANGED <<authVars, printers, username, draftVars, fieldVars>>

\* "Drucker speichern".
UpsertPrinter(pr_n, pr_p) ==
    LET r == MergeByName(printers, pr_n, pr_p)
    IN  /\ printers' = r.table
        /\ msg' = IF r.raised THEN IntegrityError ELSE OkMsg
        /\ user_dbs' = IF r.raised THEN user_dbs ELSE Render(user_dbs, username)
        /\ UNCHANGED <<authVars, materials, username, draftVars, fieldVars>>

-----------------------------------------------------------------------------
(* tab_calc: project-level input fields *)

SetPName(v) ==
    /\ CalcOk
    /\ p_name' = v
    /\ msg' = OkMsg
    /\ UNCHANGED <<authVars, catalogVars, user_dbs, username, draftVars,
                   customer_name, work_hours, work_rate, failed_filament_g,
                   failed_material>>

SetCustomerName(v) ==
    /\ CalcOk
    /\ customer_name' = v
    /\ msg' = OkMsg
    /\ UNCHANGED <<authVars, catalogVars, user_dbs, username, draftVars,
                   p_name, work_hours, work_rate, failed_filament_g,
                   failed_material>>

SetWorkHours(v) ==
    /\ CalcOk
    /\ v >= 0
    /\ work_hours' = v
    /\ msg' = OkMsg
    /\ UNCHANGED <<authVars, catalogVars, user_dbs, username, draftVars,
                   p_name, customer_name, work_rate, failed_filament_g,
                   failed_material>>

SetWorkRate(v) ==
    /\ CalcOk
    /\ v >= 0
    /\ work_rate' = v
    /\ msg' = OkMsg
    /\ UNCHANGED <<authVars, catalogVars, user_dbs, username, draftVars,
                   p_name, customer_name, work_hours, failed_filament_g,
                   failed_material>>

SetFailedFilament(v) ==
    /\ CalcOk
    /\ v >= 0
    /\ failed_filament_g' = v
    /\ msg' = OkMsg
    /\ UNCHANGED <<authVars, catalogVars, user_dbs, username, draftVars,
                   p_name, customer_name, work_hours, work_rate,
                   failed_material>>

\* The selectbox offers "" and the stored material names.
SetFailedMaterial(v) ==
    /\ CalcOk
    /\ v \in {""} \cup DOMAIN materials
    /\ failed_material' = v
    /\ msg' = OkMsg
    /\ UNCHANGED <<authVars, catalogVars, user_dbs, username, draftVars,
                   p_name, customer_name, work_hours, work_rate,
                   failed_filament_g>>

-----------------------------------------------------------------------------
(* Pricing *)

\* round(x, 2) of the amount num/den cents: the nearest cent, a tie going to
\* the even cent.
round2(num, den) ==
    LET q == num \div den
        r == num % den
    IN  IF 2 * r < den THEN q
        ELSE IF 2 * r > den THEN q + 1
        ELSE IF q % 2 = 0 THEN q ELSE q + 1

\* The printed-part cost cut off after the second decimal instead of rounded.
PrintedCost_Truncated(price_per_kg, cost_per_hour, i_w, i_t) ==
    (price_per_kg * i_w + 1000 * (cost_per_hour * i_t)) \div 1000

\* The accessory cost of a single piece, whatever the quantity.
AccessoryCost_NoQuantity(i_pr, i_q) == round2(i_pr, 10)

\* cost = (m_db[sel_m]/1000 * i_w) + (p_db[sel_p] * i_t), rounded: the price is
\* cents per kg and the weight grams, so the sum is taken in 1/1000 cent.
PrintedCost(price_per_kg, cost_per_hour, i_w, i_t) ==
    round2(price_per_kg * i_w + 1000 * (cost_per_hour * i_t), 1000)

\* round(i_pr * i_q, 2) with i_pr in tenths of a cent.
AccessoryCost(i_pr, i_q) == round2(i_pr * i_q, 10)

PrintedItem(sel_m, sel_p, i_name, i_w, i_t) ==
    [Typ |-> "Druck", Name |-> i_name, Gewicht |-> i_w,
     Kosten |-> PrintedCost(materials[sel_m], printers[sel_p], i_w, i_t),
     Details |-> sel_m]

AccessoryItem(i_name, i_pr, i_q) ==
    [Typ |-> "Zubehoer", Name |-> i_name, Gewicht |-> 0,
     Kosten |-> AccessoryCost(i_pr, i_q),
     Details |-> ToString(i_q) \o " Stk"]

-----------------------------------------------------------------------------
(* tab_calc: the draft *)

is_item_edit == edit_idx # NoIdx

\* The tail of both item handlers: replace the item under the edit cursor, or
\* append; then clear the cursor.
PutItem(item) ==
    /\ IF is_item_edit
       THEN current_items' = [current_items EXCEPT ![edit_idx + 1] = item]
       ELSE current_items' = Append(current_items, item)
    /\ edit_idx' = NoIdx
    /\ msg' = OkMsg
    /\ UNCHANGED <<authVars, catalogVars, user_dbs, username,
                   editing_project_id, fieldVars>>

\* A printed-part handler that is rendered whatever the catalogs hold and
\* prices a missing material or printer as 0.
AddPrinted_NoCatalogCheck(sel_m, sel_p, i_name, i_w, i_t) ==
    /\ CalcOk
    /\ i_w >= 0 /\ i_t >= 0
    /\ PutItem([Typ |-> "Druck", Name |-> i_name, Gewicht |-> i_w,
                Kosten |-> PrintedCost(
                    IF sel_m \in DOMAIN materials THEN materials[sel_m] ELSE 0,
                    IF sel_p \in DOMAIN printers THEN printers[sel_p] ELSE 0,
                    i_w, i_t),
                Details |-> sel_m])

\* "Hinzufuegen" / "Uebernehmen" with type Druckteil: only rendered when both
\* catalogs are non-empty.
AddPrinted(sel_m, sel_p, i_name, i_w, i_t) ==
    /\ CalcOk
    /\ DOMAIN materials # {} /\ DOMAIN printers # {}
    /\ sel_m \in DOMAIN materials /\ sel_p \in DOMAIN printers
    /\ i_w >= 0 /\ i_t >= 0
    /\ PutItem(PrintedItem(sel_m, sel_p, i_name, i_w, i_t))

\* "Hinzufuegen" / "Uebernehmen" with type Zubehoer.
AddAccessory(i_name, i_pr, i_q) ==
    /\ CalcOk
    /\ i_pr >= 0 /\ i_q >= 1
    /\ PutItem(AccessoryItem(i_name, i_pr, i_q))

\* The pencil button of draft row idx.
SelectEdit(idx) ==
    /\ CalcOk
    /\ idx \in 0..(Len(current_items) - 1)
    /\ edit_idx' = idx
    /\ msg' = OkMsg
    /\ UNCHANGED <<authVars, catalogVars, user_dbs, username, current_items,
                   editing_project_id, fieldVars>>

\* list.pop(idx)
Pop(seq, idx) == SubSeq(seq, 1, idx) \o SubSeq(seq, idx + 2, Len(seq))

\* The bin button of draft row idx.
RemoveItem(idx) ==
    /\ CalcOk
    /\ idx \in 0..(Len(current_items) - 1)
    /\ current_items' = Pop(current_items, idx)
    /\ msg' = OkMsg
    /\ UNCHANGED <<authVars, catalogVars, user_dbs, username, edit_idx,
                   editing_project_id, fieldVars>>

-----------------------------------------------------------------------------
(* tab_calc: the ledger *)

\* The projects row built by the save handler.
NewProject ==
    [name |-> p_name, customer_name |-> customer_name,
     work_hours |-> work_hours, work_rate |-> work_rate,
     failed_filament_g |-> failed_filament_g,
     failed_material |-> failed_material]

\* The items row built from draft item i for project pid.
ItemRow(i, pid) ==
    [project_id |-> pid, item_type |-> i.Typ, name |-> i.Name,
     weight |-> i.Gewicht, cost |-> i.Kosten, details |-> i.Details]

\* INSERT of the new project and of its items, in draft order; each row takes
\* the next rowid of its table.
InsertProject(db, proj, draft) ==
    LET pid   == NextRowid(DOMAIN db.projects)
        first == NextRowid(DOMAIN db.items)
        new   == first..(first + Len(draft) - 1)
    IN  [db EXCEPT
            !.projects = Put(db.projects, pid, proj),
            !.items    = [i \in (DOMAIN db.items) \cup new |->
                            IF i \in new THEN ItemRow(draft[i - first + 1], pid)
                            ELSE db.items[i]]]

\* A delete of the project row alone, without the cascade to its items.
DeleteCascade_ProjectRowOnly(db, pid) ==
    [db EXCEPT !.projects = Drop(db.projects, {pid})]

\* session.delete(project): the relationship cascade deletes the project's
\* items, then the project row.
DeleteCascade(db, pid) ==
    [db EXCEPT
        !.projects = Drop(db.projects, {pid}),
        !.items    = Drop(db.items,
                          {i \in DOMAIN db.items : db.items[i].project_id = pid})]

\* A save that inserts the new project and never deletes the edited one.
SaveFlush_KeepsOld(db, old, proj, draft) == InsertProject(db, proj, draft)

\* The flush of the save handler: the unit of work emits the INSERTs before
\* the DELETEs, so the new rows get their ids while the old rows still exist.
SaveFlush(db, old, proj, draft) ==
    LET inserted == InsertProject(db, proj, draft)
    IN  IF old # NoId /\ old \in DOMAIN db.projects
        THEN DeleteCascade(inserted, old)
        ELSE inserted

\* A save button that is rendered for an empty draft as well.
Save_AllowsEmptyDraft ==
    /\ CalcOk
    /\ user_dbs' = [user_dbs EXCEPT ![get_user_engine(username)] =
           SaveFlush(UserDb, editing_project_id, NewProject, current_items)]
    /\ current_items' = <<>>
    /\ p_name' = ""
    /\ editing_project_id' = NoId
    /\ msg' = OkMsg
    /\ UNCHANGED <<authVars, catalogVars, username, edit_idx, customer_name,
                   work_hours, work_rate, failed_filament_g, failed_material>>

\* A save that leaves editing_project_id as it is.
Save_KeepsEditingId ==
    /\ CalcOk
    /\ current_items # <<>>
    /\ user_dbs' = [user_dbs EXCEPT ![get_user_engine(username)] =
           SaveFlush(UserDb, editing_project_id, NewProject, current_items)]
    /\ current_items' = <<>>
    /\ p_name' = ""
    /\ msg' = OkMsg
    /\ UNCHANGED <<authVars, catalogVars, username, edit_idx, editing_project_id,
                   customer_name, work_hours, work_rate, failed_filament_g,
                   failed_material>>

\* "PROJEKT FINAL SPEICHERN": only rendered while the draft is non-empty.
Save ==
    /\ CalcOk
    /\ current_items # <<>>
    /\ user_dbs' = [user_dbs EXCEPT ![get_user_engine(username)] =
           SaveFlush(UserDb, editing_project_id, NewProject, current_items)]
    /\ current_items' = <<>>
    /\ p_name' = ""
    /\ editing_project_id' = NoId
    /\ msg' = OkMsg
    /\ UNCHANGED <<authVars, catalogVars, username, edit_idx, customer_name,
                   work_hours, work_rate, failed_filament_g, failed_material>>

\* A load that prices printed parts again from the current catalog.
LoadedItems_Repriced(db, pid) ==
    LET ids == ProjItemIds(db, pid)
    IN  [k \in 1..Len(ids) |->
            LET i == db.items[ids[k]]
            IN  [Typ |-> i.item_type, Name |-> i.name, Gewicht |-> i.weight,
                 Kosten |-> IF i.item_type = "Druck"
                               /\ i.details \in DOMAIN materials
                            THEN round2(materials[i.details] * i.weight, 1000)
                            ELSE i.cost,
                 Details |-> i.details]]

\* A load that lists the items of the project newest first.
LoadedItems_NewestFirst(db, pid) ==
    LET ids == ProjItemIds(db, pid)
    IN  [k \in 1..Len(ids) |->
            LET i == db.items[ids[Len(ids) + 1 - k]]
            IN  [Typ |-> i.item_type, Name |-> i.name, Gewicht |-> i.weight,
                 Kosten |-> i.cost, Details |-> i.details]]

\* The draft items read back from a persisted project.
LoadedItems(db, pid) ==
    LET ids == ProjItemIds(db, pid)
    IN  [k \in 1..Len(ids) |->
            LET i == db.items[ids[k]]
            IN  [Typ |-> i.item_type, Name |-> i.name, Gewicht |-> i.weight,
                 Kosten |-> i.cost, Details |-> i.details]]

\* getattr(proj, name, default): the default when the attribute is missing.
GetAttr(proj, c, default) == IF c \in DOMAIN proj THEN proj[c] ELSE default

\* A load that moves the project into the draft: the row and its items are
\* deleted from the ledger at once.
LoadForEdit_TakesOut(pid) ==
    /\ CalcOk
    /\ pid \in DOMAIN UserDb.projects
    /\ LET proj == UserDb.projects[pid]
       IN  /\ editing_project_id' = pid
           /\ p_name' = proj.name
           /\ customer_name' = GetAttr(proj, "customer_name", "")
           /\ work_hours' = GetAttr(proj, "work_hours", 0)
           /\ work_rate' = GetAttr(proj, "work_rate", 0)
           /\ failed_filament_g' = GetAttr(proj, "failed_filament_g", 0)
           /\ failed_material' = GetAttr(proj, "failed_material", "")
           /\ current_items' = LoadedItems(UserDb, pid)
    /\ user_dbs' = [user_dbs EXCEPT ![get_user_engine(username)] =
                        DeleteCascade(UserDb, pid)]
    /\ msg' = OkMsg
    /\ UNCHANGED <<authVars, catalogVars, username, edit_idx>>

\* "Laden" of an archive entry.
LoadForEdit(pid) ==
    /\ CalcOk
    /\ pid \in DOMAIN UserDb.projects
    /\ LET proj == UserDb.projects[pid]
       IN  /\ editing_project_id' = pid
           /\ p_name' = proj.name
           /\ customer_name' = GetAttr(proj, "customer_name", "")
           /\ work_hours' = GetAttr(proj, "work_hours", 0)
           /\ work_rate' = GetAttr(proj, "work_rate", 0)
           /\ failed_filament_g' = GetAttr(proj, "failed_filament_g", 0)
           /\ failed_material' = GetAttr(proj, "failed_material", "")
           /\ current_items' = LoadedItems(UserDb, pid)
    /\ msg' = OkMsg
    /\ UNCHANGED <<authVars, catalogVars, user_dbs, username, edit_idx>>

\* "Loeschen" of an archive entry.
DeleteProject(pid) ==
    /\ CalcOk
    /\ pid \in DOMAIN UserDb.projects
    /\ user_dbs' = [user_dbs EXCEPT ![get_user_engine(username)] =
                        DeleteCascade(UserDb, pid)]
    /\ msg' = OkMsg
    /\ UNCHANGED <<authVars, catalogVars, username, draftVars, fieldVars>>

-----------------------------------------------------------------------------
(* tab_users *)

\* "Benutzer anlegen" of new_user_form: rendered whoever is logged in.
RegisterForm(u, pw) ==
    /\ TabUsersOk
    /\ RegisterUser(u, pw)

\* os.remove(path); a missing file is ignored.
RemoveFile(dbs, path) == Drop(dbs, {path})

\* "Loeschen" of a listed user: deletes the auth row and removes the file the
\* username maps to; the re-render then opens the ledger of the session user.
DeleteUser(u) ==
    /\ TabUsersOk
    /\ u \in DOMAIN users
    /\ users' = Drop(users, {u})
    /\ user_dbs' = Render(RemoveFile(user_dbs, get_user_engine(u)), username)
    /\ msg' = OkMsg
    /\ UNCHANGED <<catalogVars, username, draftVars, fieldVars>>

-----------------------------------------------------------------------------
(* Reported totals *)

RECURSIVE SumSeq(_)
SumSeq(s) == IF s = <<>> THEN 0 ELSE Head(s) + SumSeq(Tail(s))

\* The costs of proj.items, in reading order.
ItemCosts(db, pid) ==
    LET ids == ProjItemIds(db, pid)
    IN  [k \in 1..Len(ids) |-> db.items[ids[k]].cost]

\* f"{x:.2f}" of an amount in cents.
Fmt2(cents) == [eur |-> cents \div 100, ct |-> cents % 100]

\* Archive header: sum(i.cost for i in proj.items).
ArchiveTotal(db, pid) == Fmt2(SumSeq(ItemCosts(db, pid)))

\* work_cost of create_styled_pdf, 0 when the line is not printed (cents).
PdfWorkCost(proj) ==
    IF proj.work_hours # 0 /\ proj.work_rate # 0
    THEN proj.work_hours * proj.work_rate
    ELSE 0

\* ff_cost of create_styled_pdf in 1/1000 cent, 0 when the line is not printed.
PdfFailedCost(proj) ==
    IF proj.failed_filament_g # 0 /\ proj.failed_material # ""
       /\ proj.failed_material \in DOMAIN materials
       /\ materials[proj.failed_material] # 0
    THEN materials[proj.failed_material] * proj.failed_filament_g
    ELSE 0

\* GESAMTSUMME of create_styled_pdf: total_sum accumulates item.cost over the
\* items; the work and failed-filament lines are printed but not added.
RECURSIVE PdfLoop(_, _)
PdfLoop(costs, total_sum) ==
    IF costs = <<>> THEN total_sum
    ELSE PdfLoop(Tail(costs), total_sum + Head(costs))

\* A grand total that adds the work cost to the item costs.
PdfTotal_WithWorkCost(db, pid) ==
    Fmt2(PdfLoop(ItemCosts(db, pid), 0) + PdfWorkCost(db.projects[pid]))

PdfTotal(db, pid) == Fmt2(PdfLoop(ItemCosts(db, pid), 0))

\* tab_stats: total_val over every project of every file of user_dbs/.  The
\* query names every mapped column: on a file whose projects table lacks one
\* it raises, and the file counts as having no projects.
RECURSIVE StatsOverProjects(_, _)
StatsOverProjects(db, pids) ==
    IF pids = {} THEN 0
    ELSE LET p == CHOOSE x \in pids : TRUE
         IN  SumSeq(ItemCosts(db, p)) + StatsOverProjects(db, pids \ {p})

RECURSIVE StatsOverFiles(_)
StatsOverFiles(paths) ==
    IF paths = {} THEN 0
    ELSE LET f == CHOOSE x \in paths : TRUE
         IN  (IF AllCols \subseteq user_dbs[f].cols
              THEN StatsOverProjects(user_dbs[f], DOMAIN user_dbs[f].projects)
              ELSE 0)
             + StatsOverFiles(paths \ {f})

StatsTotal == Fmt2(StatsOverFiles(DOMAIN user_dbs))

-----------------------------------------------------------------------------
(* Guards that keep the explored state space finite *)

\* An append keeps the draft within maxDraft items (a replace never grows it).
DraftRoom(maxDraft) == is_item_edit \/ Len(current_items) < maxDraft

\* A save hands out no project id above maxProj and no item id above maxItem.
SaveRoom(maxProj, maxItem) ==
    username # NoUser =>
        /\ NextRowid(DOMAIN UserDb.projects) <= maxProj
        /\ NextRowid(DOMAIN UserDb.items) + Len(current_items) - 1 <= maxItem

-----------------------------------------------------------------------------
(* Initial state: a fresh installation, a fresh browser session *)

Init ==
    /\ users = <<>>
    /\ materials = <<>>
    /\ printers = <<>>
    /\ user_dbs = <<>>
    /\ username = NoUser
    /\ current_items = <<>>
    /\ edit_idx = NoIdx
    /\ editing_project_id = NoId
    /\ p_name = ""
    /\ customer_name = ""
    /\ work_hours = 0
    /\ work_rate = 0
    /\ failed_filament_g = 0
    /\ failed_material = ""
    /\ msg = OkMsg

-----------------------------------------------------------------------------
(* Accounts and ledgers: three usernames, two of which sanitise to the same *)
(* file name, two passwords, one accessory item.                            *)

AuthMaxDraft == 1    \* longest draft
AuthMaxProjId == 2   \* largest projects.id handed out
AuthMaxItemId == 2   \* largest items.id handed out

Usernames == {<<"a">>, <<"A", "!">>, <<"b">>}
Passwords == {"p", "q"}

NextAuth ==
    \/ \E u \in Usernames, pw \in Passwords : Login(u, pw)
    \/ \E u \in Usernames, pw \in Passwords : RegisterSidebar(u, pw)
    \/ \E u \in Usernames, pw \in Passwords : RegisterForm(u, pw)
    \/ Logout
    \/ \E u \in Usernames : DeleteUser(u)
    \/ DraftRoom(AuthMaxDraft) /\ AddAccessory("clip", 3500, 1)
    \/ SaveRoom(AuthMaxProjId, AuthMaxItemId) /\ Save
    \/ \E pid \in 1..AuthMaxProjId : DeleteProject(pid)

SpecAuth == Init /\ [][NextAuth]_vars

-----------------------------------------------------------------------------
(* Claims on accounts and ledgers (checked under SpecAuth) *)

\* The ledger an account sees: the tables of the file its name maps to.
LedgerOf(u) ==
    IF get_user_engine(u) \in DOMAIN user_dbs
    THEN user_dbs[get_user_engine(u)]
    ELSE EmptyDb

\* C1: per-user isolation.  A project saved while logged in as one user never
\* appears in the ledger another registered account sees: a save leaves the
\* ledger of every account other than the session user as it was (distinct
\* accounts are backed by distinct ledger instances).
C1_Isolation ==
    [][ Save => \A v \in DOMAIN users :
                  v # username => LedgerOf(v)' = LedgerOf(v) ]_vars

\* C2: deleteAccount(u) removes the account of u and all of u's projects, and
\* the ledger of every other registered account is the same before and after.
C2_DeleteAccountFrame ==
    [][ \A u \in Usernames :
          DeleteUser(u) =>
            /\ u \notin DOMAIN users'
            /\ LedgerOf(u)'.projects = <<>>
            /\ \A v \in DOMAIN users' : LedgerOf(v)' = LedgerOf(v) ]_vars

\* C9: registering a username that is already registered is refused on both
\* registration paths: the accounts and their password verifiers stay as they
\* were and the session user does not change.
C9_DuplicateRegistrationRefused ==
    [][ \A u \in DOMAIN users, pw \in Passwords :
          (RegisterSidebar(u, pw) \/ RegisterForm(u, pw)) =>
            /\ users' = users
            /\ username' = username
            /\ msg' = ExistsMsg ]_vars

\* C9 witness: a registration was just refused while two accounts exist and
\* another user is logged in.
C9_Witness ==
    /\ msg = ExistsMsg
    /\ Cardinality(DOMAIN users) >= 2
    /\ username # NoUser

-----------------------------------------------------------------------------
(* Pricing: one user, two materials and one printer, a draft of printed     *)
(* parts and accessories.                                                   *)

PriceMaxDraft == 2   \* longest draft

MatNames == {"PLA", "ABS"}
MatPrices == {2500, 1999}        \* cents per kg
PrinterNames == {"MK3"}
PrinterRates == {40, 55}         \* cents per hour
Weights == {50, 8}               \* grams
Times == {0, 2}                  \* hours
UnitPrices == {3500, 333, 999}   \* tenths of a cent
Quantities == {1, 4}

NextPricing ==
    \/ RegisterSidebar(<<"a">>, "p")
    \/ UpsertMaterial("PLA", 2500)
    \/ UpsertMaterial("ABS", 1999)
    \/ UpsertPrinter("MK3", 40)
    \/ \E m \in MatNames, pr \in PrinterNames, w \in Weights, t \in Times :
          DraftRoom(PriceMaxDraft) /\ AddPrinted(m, pr, "part", w, t)
    \/ \E u \in UnitPrices, q \in Quantities :
          DraftRoom(PriceMaxDraft) /\ AddAccessory("clip", u, q)
    \/ \E idx \in 0..PriceMaxDraft : SelectEdit(idx)
    \/ \E idx \in 0..PriceMaxDraft : RemoveItem(idx)

SpecPricing == Init /\ [][NextPricing]_vars

-----------------------------------------------------------------------------
(* Claims on pricing (checked under SpecPricing); C4 is checked under       *)
(* SpecBaked, where every catalog name is upserted with two prices.         *)

\* C4: catalog upsert is create-if-absent-else-overwrite keyed by name: a call
\* raises no error and leaves exactly the entry of that name holding the
\* supplied price, every other entry unchanged.
C4_UpsertByName ==
    [][ /\ \A n \in MatNames, v \in MatPrices :
              UpsertMaterial(n, v) =>
                  msg' # IntegrityError /\ materials' = Put(materials, n, v)
        /\ \A n \in PrinterNames, v \in PrinterRates :
              UpsertPrinter(n, v) =>
                  msg' # IntegrityError /\ printers' = Put(printers, n, v) ]_vars

\* The position a new item goes to: the edit cursor, else the end of the draft.
TargetPos == IF is_item_edit THEN edit_idx + 1 ELSE Len(current_items) + 1

\* The items of the draft other than the one at position pos stay as they were.
OthersKept(pos) ==
    /\ Len(current_items') = IF is_item_edit THEN Len(current_items)
                             ELSE Len(current_items) + 1
    /\ \A k \in 1..Len(current_items) :
          k # pos => current_items'[k] = current_items[k]

\* C5: a printed part added or replaced with material price P (cents/kg),
\* printer rate R (cents/h), weight W and time T is stored with the cent
\* nearest to (P/1000)*W + R*T; the other draft items keep their costs.
C5_PrintedCost ==
    [][ \A m \in MatNames, pr \in PrinterNames, w \in Weights, t \in Times :
          AddPrinted(m, pr, "part", w, t) =>
            LET item  == current_items'[TargetPos]
                exact == materials[m] * w + 1000 * (printers[pr] * t)
            IN  /\ item.Typ = "Druck"
                /\ item.Gewicht = w
                /\ 1000 * item.Kosten - exact <= 500
                /\ exact - 1000 * item.Kosten <= 500
                /\ OthersKept(TargetPos) ]_vars

\* C5 witness: the part of the example P = 25.00, R = 0.40, W = 50, T = 2 is in
\* the draft with cost 2.05.
C5_Witness ==
    \E k \in 1..Len(current_items) :
        /\ current_items[k].Typ = "Druck"
        /\ current_items[k].Details \in DOMAIN materials
        /\ materials[current_items[k].Details] = 2500
        /\ current_items[k].Gewicht = 50
        /\ current_items[k].Kosten = 205

\* The text "Q Stk" for the quantities of the model.
QtyText(q) == CASE q = 1 -> "1 Stk" [] q = 4 -> "4 Stk"

\* C6: an accessory added or replaced with unit price U (tenths of a cent) and
\* quantity Q >= 1 is stored with the cent nearest to U*Q, weight 0 and
\* details "Q Stk".
C6_AccessoryCost ==
    [][ \A u \in UnitPrices, q \in Quantities :
          AddAccessory("clip", u, q) =>
            LET item == current_items'[TargetPos]
            IN  /\ item.Typ = "Zubehoer"
                /\ item.Gewicht = 0
                /\ 10 * item.Kosten - u * q <= 5
                /\ u * q - 10 * item.Kosten <= 5
                /\ item.Details = QtyText(q)
                /\ OthersKept(TargetPos) ]_vars

\* C6 witness: the accessory of the example U = 3.50, Q = 4 is in the draft
\* with cost 14.00.
C6_Witness ==
    \E k \in 1..Len(current_items) :
        /\ current_items[k].Typ = "Zubehoer"
        /\ current_items[k].Kosten = 1400
        /\ current_items[k].Details = "4 Stk"

-----------------------------------------------------------------------------
(* The ledger of one user: a draft of accessories that is saved, loaded for  *)
(* edit, saved again and deleted.                                           *)

LedgerMaxDraft == 1    \* longest draft
LedgerMaxProjId == 3   \* largest projects.id handed out
LedgerMaxItemId == 3   \* largest items.id handed out

NextLedger ==
    \/ RegisterSidebar(<<"a">>, "p")
    \/ \E q \in Quantities :
          DraftRoom(LedgerMaxDraft) /\ AddAccessory("clip", 3500, q)
    \/ \E idx \in 0..LedgerMaxDraft : SelectEdit(idx)
    \/ \E idx \in 0..LedgerMaxDraft : RemoveItem(idx)
    \/ SaveRoom(LedgerMaxProjId, LedgerMaxItemId) /\ Save
    \/ \E pid \in 1..LedgerMaxProjId : LoadForEdit(pid)
    \/ \E pid \in 1..LedgerMaxProjId : DeleteProject(pid)

SpecLedger == Init /\ [][NextLedger]_vars

-----------------------------------------------------------------------------
(* Catalog changes next to a ledger: printed parts priced from the catalog  *)
(* are saved and loaded while materials and printers are upserted.          *)

BakedMaxDraft == 1     \* longest draft
BakedMaxProjId == 2    \* largest projects.id handed out
BakedMaxItemId == 2    \* largest items.id handed out

NextBaked ==
    \/ RegisterSidebar(<<"a">>, "p")
    \/ \E n \in MatNames, v \in MatPrices : UpsertMaterial(n, v)
    \/ \E v \in PrinterRates : UpsertPrinter("MK3", v)
    \/ \E m \in MatNames :
          DraftRoom(BakedMaxDraft) /\ AddPrinted(m, "MK3", "part", 50, 2)
    \/ \E idx \in 0..BakedMaxDraft : SelectEdit(idx)
    \/ SaveRoom(BakedMaxProjId, BakedMaxItemId) /\ Save
    \/ \E pid \in 1..BakedMaxProjId : LoadForEdit(pid)
    \/ \E pid \in 1..BakedMaxProjId : DeleteProject(pid)

SpecBaked == Init /\ [][NextBaked]_vars

-----------------------------------------------------------------------------
(* Totals: projects of one or two accessories saved with different work and *)
(* failed-filament fields.                                                  *)

TotalsMaxDraft == 2    \* longest draft
TotalsMaxProjId == 2   \* largest projects.id handed out
TotalsMaxItemId == 4   \* largest items.id handed out

NextTotals ==
    \/ RegisterSidebar(<<"a">>, "p")
    \/ UpsertMaterial("PLA", 2500)
    \/ DraftRoom(TotalsMaxDraft) /\ AddAccessory("clip", 3500, 1)
    \/ SetWorkHours(2)
    \/ SetWorkRate(10)
    \/ SetFailedFilament(5)
    \/ SetFailedMaterial("PLA")
    \/ SaveRoom(TotalsMaxProjId, TotalsMaxItemId) /\ Save
    \/ \E pid \in 1..TotalsMaxProjId : DeleteProject(pid)

SpecTotals == Init /\ [][NextTotals]_vars

-----------------------------------------------------------------------------
(* Claims on the ledger (checked under SpecLedger) *)

\* The save runs with an editing_project_id that resolves in the open ledger.
EditingResolves ==
    /\ username # NoUser
    /\ editing_project_id # NoId
    /\ editing_project_id \in DOMAIN UserDb.projects

\* The projects of pids that carry exactly the items of the draft.
CarryDraft(db, pids, draft) == {p \in pids : LoadedItems(db, p) = draft}

\* Every project other than X is in the ledger afterwards with the same row
\* and the same items.
OthersUnchanged(before, after, X) ==
    \A p \in (DOMAIN before.projects) \ {X} :
        /\ p \in DOMAIN after.projects
        /\ after.projects[p] = before.projects[p]
        /\ LoadedItems(after, p) = LoadedItems(before, p)

\* C3 as stated: a save with editing_project_id = X resolving leaves X
\* unresolvable, exactly one project of the ledger carrying the draft's items,
\* every other project unchanged and the number of projects the same.
C3_ReplaceExactlyOneCarrier ==
    [][ (Save /\ EditingResolves) =>
          LET X      == editing_project_id
              before == UserDb
              after  == UserDb'
          IN  /\ X \notin DOMAIN after.projects
              /\ Cardinality(CarryDraft(after, DOMAIN after.projects,
                                        current_items)) = 1
              /\ OthersUnchanged(before, after, X)
              /\ Cardinality(DOMAIN after.projects)
                   = Cardinality(DOMAIN before.projects) ]_vars

\* C3 amended: a save with editing_project_id = X resolving leaves X
\* unresolvable, exactly one project that was not in the ledger before
\* carrying the draft's items, every other project unchanged and the number
\* of projects the same.
C3_ReplaceOneNewCarrier ==
    [][ (Save /\ EditingResolves) =>
          LET X      == editing_project_id
              before == UserDb
              after  == UserDb'
              fresh  == (DOMAIN after.projects) \ (DOMAIN before.projects)
          IN  /\ X \notin DOMAIN after.projects
              /\ Cardinality(fresh) = 1
              /\ CarryDraft(after, fresh, current_items) = fresh
              /\ OthersUnchanged(before, after, X)
              /\ Cardinality(DOMAIN after.projects)
                   = Cardinality(DOMAIN before.projects) ]_vars

\* C3 witness: project 2 was loaded and saved again as project 3 next to
\* project 1, which carries the same items.
C3_Witness ==
    /\ username # NoUser
    /\ DOMAIN UserDb.projects = {1, 3}
    /\ LoadedItems(UserDb, 1) = LoadedItems(UserDb, 3)
    /\ current_items = <<>>
    /\ editing_project_id = NoId

\* Every items row references a project of the same file.
NoOrphans ==
    \A f \in DOMAIN user_dbs :
        \A i \in DOMAIN user_dbs[f].items :
            user_dbs[f].items[i].project_id \in DOMAIN user_dbs[f].projects

\* The items rows of before, without those of project pid.
ItemsWithout(before, pid) ==
    Drop(before.items,
         {i \in DOMAIN before.items : before.items[i].project_id = pid})

\* C10: no orphaned items.  Every persisted item references a project of its
\* ledger; a delete, and the delete step of a replacing save, removes the
\* project with all of its items and leaves the items of every other project
\* as they were.
C10_NoOrphanedItems ==
    [][ /\ NoOrphans'
        /\ \A pid \in 1..LedgerMaxProjId :
              DeleteProject(pid) =>
                  /\ pid \notin DOMAIN UserDb'.projects
                  /\ UserDb'.items = ItemsWithout(UserDb, pid)
        /\ (Save /\ EditingResolves) =>
              /\ editing_project_id \notin DOMAIN UserDb'.projects
              /\ \A i \in DOMAIN UserDb.items :
                    IF UserDb.items[i].project_id = editing_project_id
                    THEN i \notin DOMAIN UserDb'.items
                    ELSE /\ i \in DOMAIN UserDb'.items
                         /\ UserDb'.items[i] = UserDb.items[i] ]_vars

\* C10 witness: project 1 is gone while project 2 and its item are stored.
C10_Witness ==
    /\ username # NoUser
    /\ DOMAIN UserDb.projects = {2}
    /\ DOMAIN UserDb.items # {}
    /\ \A i \in DOMAIN UserDb.items : UserDb.items[i].project_id = 2

-----------------------------------------------------------------------------
(* Claims on totals (checked under SpecTotals) *)

\* The sum of the costs of the items rows ids of db.
RECURSIVE CostSum(_, _)
CostSum(db, ids) ==
    IF ids = {} THEN 0
    ELSE LET i == CHOOSE x \in ids : TRUE
         IN  db.items[i].cost + CostSum(db, ids \ {i})

ItemsOf(db, pid) == {i \in DOMAIN db.items : db.items[i].project_id = pid}

RECURSIVE AllCostSum(_)
AllCostSum(paths) ==
    IF paths = {} THEN 0
    ELSE LET f == CHOOSE x \in paths : TRUE
         IN  CostSum(user_dbs[f], DOMAIN user_dbs[f].items)
             + AllCostSum(paths \ {f})

\* C7: the total reported for a project in the archive header and as the PDF
\* grand total is the sum of the costs of its items, the statistics total is
\* the sum over all items, and two projects with the same items report the
\* same totals whatever their work and failed-filament fields are.
C7_TotalIsItemSum ==
    /\ \A f \in DOMAIN user_dbs :
          LET db == user_dbs[f]
          IN  /\ \A p \in DOMAIN db.projects :
                    /\ ArchiveTotal(db, p) = Fmt2(CostSum(db, ItemsOf(db, p)))
                    /\ PdfTotal(db, p) = Fmt2(CostSum(db, ItemsOf(db, p)))
              /\ \A p, q \in DOMAIN db.projects :
                    LoadedItems(db, p) = LoadedItems(db, q) =>
                        /\ ArchiveTotal(db, p) = ArchiveTotal(db, q)
                        /\ PdfTotal(db, p) = PdfTotal(db, q)
    /\ StatsTotal = Fmt2(AllCostSum(DOMAIN user_dbs))

\* C7 witness: two projects of two items each, the same items, one without
\* work and failed-filament cost and one with both.
C7_Witness ==
    /\ username # NoUser
    /\ \E p, q \in DOMAIN UserDb.projects :
          /\ LoadedItems(UserDb, p) = LoadedItems(UserDb, q)
          /\ Len(LoadedItems(UserDb, p)) = 2
          /\ PdfWorkCost(UserDb.projects[p]) = 0
          /\ PdfFailedCost(UserDb.projects[p]) = 0
          /\ PdfWorkCost(UserDb.projects[q]) > 0
          /\ PdfFailedCost(UserDb.projects[q]) > 0

-----------------------------------------------------------------------------
(* Claims on baked-in prices (checked under SpecBaked) *)

\* The costs of a draft, in order.
DraftCosts(draft) == [k \in 1..Len(draft) |-> draft[k].Kosten]

\* Every items row stored before and after holds the same cost.
StoredCostsKept ==
    \A f \in (DOMAIN user_dbs) \cap (DOMAIN user_dbs') :
        \A i \in (DOMAIN user_dbs[f].items) \cap (DOMAIN user_dbs'[f].items) :
            user_dbs'[f].items[i].cost = user_dbs[f].items[i].cost

\* C8: prices are baked in.  An upsert of a material or printer leaves every
\* ledger and the draft as they were; a load for edit hands the stored costs
\* to the draft and a save stores the costs of the draft, without pricing
\* anything again from the catalog.
C8_PricesBakedIn ==
    [][ /\ \A n \in MatNames, v \in MatPrices :
              UpsertMaterial(n, v) =>
                  user_dbs' = user_dbs /\ current_items' = current_items
        /\ \A n \in PrinterNames, v \in PrinterRates :
              UpsertPrinter(n, v) =>
                  user_dbs' = user_dbs /\ current_items' = current_items
        /\ \A pid \in 1..BakedMaxProjId :
              LoadForEdit(pid) =>
                  /\ DraftCosts(current_items') = ItemCosts(UserDb, pid)
                  /\ StoredCostsKept
        /\ Save =>
              /\ StoredCostsKept
              /\ \E pid \in (DOMAIN UserDb'.projects) \ (DOMAIN UserDb.projects) :
                    ItemCosts(UserDb', pid) = DraftCosts(current_items) ]_vars

\* C8 witness: an upsert of a stored material name was just attempted while a
\* printed part is persisted and another one, loaded from the ledger, is in
\* the draft.
C8_Witness ==
    /\ msg = IntegrityError
    /\ username # NoUser
    /\ editing_project_id \in DOMAIN UserDb.projects
    /\ current_items # <<>>
    /\ current_items[1].Typ = "Druck"
    /\ current_items[1].Kosten = 205

-----------------------------------------------------------------------------
(* Ledgers written by an earlier revision of the program: the projects table *)
(* has the name column and any subset of the columns added later.           *)

MigrateMaxDraft == 1    \* longest draft
MigrateMaxProjId == 2   \* largest projects.id handed out
MigrateMaxItemId == 2   \* largest items.id handed out

LegacyUser == <<"a">>

\* What the earlier revision stored in a column it had.
LegacyValue(c) ==
    CASE c = "name" -> "old"
      [] c = "customer_name" -> "kunde"
      [] c = "work_hours" -> 2
      [] c = "work_rate" -> 10
      [] c = "failed_filament_g" -> 5
      [] c = "failed_material" -> "PLA"

\* A ledger file of the earlier revision with one project of one item.
LegacyDb(cols) ==
    [cols     |-> cols,
     projects |-> (1 :> [c \in cols |-> LegacyValue(c)]),
     items    |-> (1 :> ItemRow(AccessoryItem("clip", 3500, 1), 1))]

\* An installation taken over from the earlier revision: one account, the
\* catalog, and the account's ledger in one of the earlier schemas.
InitLegacy ==
    /\ users = (LegacyUser :> hash_pw("p"))
    /\ materials = ("PLA" :> 2500)
    /\ printers = <<>>
    /\ \E S \in SUBSET (AllCols \ {"name"}) :
          user_dbs = (get_user_engine(LegacyUser) :> LegacyDb({"name"} \cup S))
    /\ username = NoUser
    /\ current_items = <<>>
    /\ edit_idx = NoIdx
    /\ editing_project_id = NoId
    /\ p_name = ""
    /\ customer_name = ""
    /\ work_hours = 0
    /\ work_rate = 0
    /\ failed_filament_g = 0
    /\ failed_material = ""
    /\ msg = OkMsg

NextMigrate ==
    \/ Login(LegacyUser, "p")
    \/ Logout
    \/ DraftRoom(MigrateMaxDraft) /\ AddAccessory("clip", 3500, 4)
    \/ SaveRoom(MigrateMaxProjId, MigrateMaxItemId) /\ Save
    \/ \E pid \in 1..MigrateMaxProjId : LoadForEdit(pid)
    \/ \E pid \in 1..MigrateMaxProjId : DeleteProject(pid)

SpecMigrate == InitLegacy /\ [][NextMigrate]_vars

\* The step opens the existing file f: no ledger was open before it and f is
\* the ledger of the session user after it.
Opens(f) ==
    /\ f \in DOMAIN user_dbs
    /\ username = NoUser
    /\ username' # NoUser
    /\ f = get_user_engine(username')
    /\ f \in DOMAIN user_dbs'

\* C11: opening a ledger whose projects table lacks any subset of the columns
\* added later does not fail: the ledger of a logged-in session always has
\* the full schema and every row has every column; and on the step that opens
\* it, every project that was there is still there, reads the default (0 or
\* absent) in each column the table lacked, keeps what it had in the columns
\* the table had, its name included, and keeps its items.
C11_LegacyLedgerOpens ==
    /\ [](username # NoUser =>
            /\ get_user_engine(username) \in DOMAIN user_dbs
            /\ UserDb.cols = AllCols
            /\ \A p \in DOMAIN UserDb.projects :
                  DOMAIN UserDb.projects[p] = AllCols)
    /\ [][\A f \in DOMAIN user_dbs :
            Opens(f) =>
               LET before == user_dbs[f]
                   after  == user_dbs'[f]
               IN  /\ after.cols = AllCols
                   /\ DOMAIN after.projects = DOMAIN before.projects
                   /\ after.items = before.items
                   /\ \A p \in DOMAIN before.projects :
                        /\ after.projects[p].name = before.projects[p].name
                        /\ \A c \in before.cols :
                              after.projects[p][c] = before.projects[p][c]
                        /\ \A c \in AllCols \ before.cols :
                              after.projects[p][c] = ColumnDefault(c)]_vars

\* A ledger that came without the customer and work columns is open, its old
\* project has been loaded into the form, and the form shows the old name and
\* failed-print fields with the defaults in the columns that were missing.
C11_Witness ==
    /\ username = LegacyUser
    /\ editing_project_id = 1
    /\ 1 \in DOMAIN UserDb.projects
    /\ p_name = "old"
    /\ customer_name = ""
    /\ work_hours = 0
    /\ work_rate = 0
    /\ failed_filament_g = 5
    /\ failed_material = "PLA"
    /\ Len(current_items) = 1
    /\ current_items[1].Name = "clip"

-----------------------------------------------------------------------------
(* Claims about the login and the session user, under SpecAuth *)

\* C12: "Anmelden" with a username and a password logs the session in as that
\* account only if the account exists and the password is the one its stored
\* verifier was made from; every other attempt shows the failure message and
\* leaves the session user, the accounts and every ledger as they were, with
\* nobody logged in, so that the login form is rendered again for a retry.
C12_LoginChecksVerifier ==
    [][\A u \in Usernames, pw \in Passwords :
          Login(u, pw) =>
             IF u \in DOMAIN users /\ users[u] = hash_pw(pw)
             THEN username' = u
             ELSE /\ msg' = LoginFailedMsg
                  /\ username' = username
                  /\ username' = NoUser
                  /\ users' = users
                  /\ user_dbs' = user_dbs]_vars

\* A login has just failed although accounts and a ledger with a project
\* exist.
C12_Witness ==
    /\ msg = LoginFailedMsg
    /\ username = NoUser
    /\ <<"a">> \in DOMAIN users
    /\ <<"b">> \in DOMAIN users
    /\ \E f \in DOMAIN user_dbs : user_dbs[f].projects # <<>>

-----------------------------------------------------------------------------
(* Claims about the draft after a save, under SpecLedger *)

\* Every project of the ledger before the step is in the ledger after it, with
\* the same row and the same items.
AllProjectsKept(before, after) ==
    \A p \in DOMAIN before.projects :
        /\ p \in DOMAIN after.projects
        /\ after.projects[p] = before.projects[p]
        /\ ItemsOf(after, p) = ItemsOf(before, p)
        /\ \A i \in ItemsOf(before, p) : after.items[i] = before.items[i]

\* C13: after every save the draft is empty and editing_project_id is unset;
\* a save made while editing_project_id is unset deletes and changes no
\* persisted project; and editing_project_id becomes set only by a load of a
\* project of the ledger.
C13_SaveClearsEditing ==
    [][/\ Save => (current_items' = <<>> /\ editing_project_id' = NoId)
       /\ (Save /\ editing_project_id = NoId) => AllProjectsKept(UserDb, UserDb')
       /\ (editing_project_id' # NoId /\ editing_project_id' # editing_project_id)
             => \E pid \in DOMAIN UserDb.projects : LoadForEdit(pid)]_vars

\* Two saves in a row without a load in between: a project was loaded and
\* saved (ids 1 and 2 are used up, 2 replaced 1), then another draft was saved
\* as project 3 next to it.
C13_Witness ==
    /\ username # NoUser
    /\ DOMAIN UserDb.projects = {2, 3}
    /\ current_items = <<>>
    /\ editing_project_id = NoId

-----------------------------------------------------------------------------
(* Two accounts with separate ledger files taking turns in one browser      *)
(* session.  Every item is named after the user who composed it, and a      *)
(* draft is not changed between its load and its save.                      *)

LeakMaxDraft == 1    \* longest draft
LeakMaxProjId == 2   \* largest projects.id handed out
LeakMaxItemId == 2   \* largest items.id handed out

LeakUsers == {<<"a">>, <<"b">>}

NextLeak ==
    \/ \E u \in LeakUsers : RegisterSidebar(u, "p")
    \/ \E u \in LeakUsers : Login(u, "p")
    \/ Logout
    \/ /\ username # NoUser
       /\ DraftRoom(LeakMaxDraft)
       /\ AddAccessory(username[1], 3500, 1)
    \/ SaveRoom(LeakMaxProjId, LeakMaxItemId) /\ Save
    \/ \E pid \in 1..LeakMaxProjId : LoadForEdit(pid)

SpecLeak == Init /\ [][NextLeak]_vars

\* The ledger file of the user an item is named after.
ComposedIn(item_name) == get_user_engine(<<item_name>>)

\* C14: session state does not leak across users.  No ledger ever holds an
\* item composed in another user's session; and a save replaces a project
\* only when the draft is what was loaded from that project of the ledger of
\* the user logged in at the save.
C14_NoLeakAcrossUsers ==
    /\ [](\A f \in DOMAIN user_dbs : \A i \in DOMAIN user_dbs[f].items :
             ComposedIn(user_dbs[f].items[i].name) = f)
    /\ [][(/\ Save
           /\ editing_project_id \in DOMAIN UserDb.projects
           /\ editing_project_id \notin DOMAIN UserDb'.projects)
          => current_items = LoadedItems(UserDb, editing_project_id)]_vars

-----------------------------------------------------------------------------
(* Claims about the edit cursor and the ledgers, under SpecLedger *)

\* C15: the edit cursor is unset or an index of the draft, and for as long as
\* it stays set at one index that index holds the item it was set on.
C15_EditCursorValid ==
    /\ [](edit_idx = NoIdx \/ edit_idx \in 0..(Len(current_items) - 1))
    /\ [][(/\ edit_idx # NoIdx
           /\ edit_idx < Len(current_items)
           /\ edit_idx' = edit_idx)
          => /\ edit_idx < Len(current_items')
             /\ current_items'[edit_idx + 1] = current_items[edit_idx + 1]]_vars

-----------------------------------------------------------------------------
(* One user composing drafts of printed parts and accessories, saving and   *)
(* loading them.                                                            *)

FormMaxDraft == 2    \* longest draft
FormMaxProjId == 1   \* largest projects.id handed out
FormMaxItemId == 2   \* largest items.id handed out

NextForm ==
    \/ RegisterSidebar(<<"a">>, "p")
    \/ UpsertMaterial("PLA", 2500)
    \/ UpsertPrinter("MK3", 40)
    \/ DraftRoom(FormMaxDraft) /\ AddPrinted("PLA", "MK3", "part", 50, 2)
    \/ DraftRoom(FormMaxDraft) /\ AddAccessory("clip", 3500, 4)
    \/ \E idx \in 0..FormMaxDraft : SelectEdit(idx)
    \/ \E idx \in 0..FormMaxDraft : RemoveItem(idx)
    \/ SaveRoom(FormMaxProjId, FormMaxItemId) /\ Save
    \/ \E pid \in 1..FormMaxProjId : LoadForEdit(pid)

SpecForm == Init /\ [][NextForm]_vars

\* C16: the draft is not persisted before a save: adding or replacing a
\* printed part or an accessory, selecting an item for edit, removing an item
\* and loading a project for edit leave every ledger as it was.
C16_DraftNotPersisted ==
    [][(\/ AddPrinted("PLA", "MK3", "part", 50, 2)
        \/ AddAccessory("clip", 3500, 4)
        \/ \E idx \in 0..FormMaxDraft : SelectEdit(idx)
        \/ \E idx \in 0..FormMaxDraft : RemoveItem(idx)
        \/ \E pid \in 1..FormMaxProjId : LoadForEdit(pid))
       => user_dbs' = user_dbs]_vars

\* A saved project of one item has been loaded and a second item added to the
\* draft; the ledger still holds the project with its one item.
C16_Witness ==
    /\ username # NoUser
    /\ editing_project_id = 1
    /\ Len(current_items) = 2
    /\ current_items[1].Typ = "Druck"
    /\ current_items[2].Typ = "Zubehoer"
    /\ 1 \in DOMAIN UserDb.projects
    /\ Len(ItemCosts(UserDb, 1)) = 1

-----------------------------------------------------------------------------
(* One user filling the project fields, saving drafts and loading them      *)
(* again.  The first item of a draft is one clip, every further item is     *)
(* four clips, so that the items of a draft are told apart by position.     *)

TripMaxDraft == 2    \* longest draft
TripMaxProjId == 2   \* largest projects.id handed out
TripMaxItemId == 4   \* largest items.id handed out

NextTrip ==
    \/ RegisterSidebar(<<"a">>, "p")
    \/ SetPName("x")
    \/ SetCustomerName("kunde")
    \/ SetWorkHours(2)
    \/ /\ DraftRoom(TripMaxDraft)
       /\ AddAccessory("clip", 3500, IF current_items = <<>> THEN 1 ELSE 4)
    \/ SaveRoom(TripMaxProjId, TripMaxItemId) /\ Save
    \/ \E pid \in 1..TripMaxProjId : LoadForEdit(pid)

SpecTrip == Init /\ [][NextTrip]_vars

\* The items rows of a project in rowid order, without the project they
\* belong to.
StoredItems(db, pid) ==
    LET ids == ProjItemIds(db, pid)
    IN  [k \in 1..Len(ids) |-> [db.items[ids[k]] EXCEPT !.project_id = NoId]]

\* The draft as the rows a save would write.
DraftAsRows == [k \in 1..Len(current_items) |-> ItemRow(current_items[k], NoId)]

\* The session is as a load of project pid leaves it: the project is marked
\* as being edited, the form holds its fields and the draft its items in
\* their stored order.
JustLoaded(pid) ==
    /\ username # NoUser
    /\ pid \in DOMAIN UserDb.projects
    /\ editing_project_id = pid
    /\ NewProject = UserDb.projects[pid]
    /\ DraftAsRows = StoredItems(UserDb, pid)

\* C17: load and save are a round trip.  A load of project X marks X as being
\* edited and fills the form and the draft from it; a save made in that state
\* leaves a project with another id than X that has the name, customer, work
\* and failed-print fields of X and the items of X in the same order, while X
\* itself is gone.
C17_LoadSaveRoundTrip ==
    [][\A pid \in 1..TripMaxProjId :
          /\ LoadForEdit(pid) => JustLoaded(pid)'
          /\ (JustLoaded(pid) /\ Save) =>
                \E new \in DOMAIN UserDb'.projects :
                   /\ new # pid
                   /\ new \notin DOMAIN UserDb.projects
                   /\ pid \notin DOMAIN UserDb'.projects
                   /\ UserDb'.projects[new] = UserDb.projects[pid]
                   /\ StoredItems(UserDb', new) = StoredItems(UserDb, pid)]_vars

\* Project 1, with a name, a customer, work hours and two different items, has
\* been loaded and saved: project 2 holds all of it and project 1 is gone.
C17_Witness ==
    /\ username # NoUser
    /\ DOMAIN UserDb.projects = {2}
    /\ UserDb.projects[2].name = "x"
    /\ UserDb.projects[2].customer_name = "kunde"
    /\ UserDb.projects[2].work_hours = 2
    /\ Len(StoredItems(UserDb, 2)) = 2
    /\ StoredItems(UserDb, 2)[1].details = "1 Stk"
    /\ StoredItems(UserDb, 2)[2].details = "4 Stk"
    /\ DOMAIN UserDb.items = {3, 4}
    /\ current_items = <<>>

-----------------------------------------------------------------------------
(* Claims about the item form, under SpecPricing *)

\* C18: while the material catalog or the printer catalog is empty, no step
\* adds or replaces a printed part, whatever is entered, so the draft, the
\* cursor and the ledgers stay as they are; an accessory can still be added
\* or put in place of the item under the cursor.
C18_NoPrintedPartWithoutCatalog ==
    /\ [][(DOMAIN materials = {} \/ DOMAIN printers = {}) =>
             \A m \in MatNames, pr \in PrinterNames, w \in Weights, t \in Times :
                ~AddPrinted(m, pr, "part", w, t)]_vars
    /\ []((CalcOk /\ (DOMAIN materials = {} \/ DOMAIN printers = {})) =>
             \A u \in UnitPrices, q \in Quantities :
                ENABLED AddAccessory("clip", u, q))

\* Materials exist but no printer does, and the draft holds an accessory that
\* was added in this situation.
C18_Witness ==
    /\ username # NoUser
    /\ DOMAIN materials = MatNames
    /\ DOMAIN printers = {}
    /\ Len(current_items) = 1
    /\ current_items[1].Typ = "Zubehoer"

-----------------------------------------------------------------------------
(* Claims about deleted accounts, under SpecAuth *)

\* C19: the session user is always a registered account, every ledger file is
\* the file of a registered account, and after the deletion of account u,
\* also of the one that is logged in, no ledger file of u exists.
C19_SessionUserRegistered ==
    /\ [](username # NoUser => username \in DOMAIN users)
    /\ [](\A f \in DOMAIN user_dbs :
             \E u \in DOMAIN users : get_user_engine(u) = f)
    /\ [][\A u \in Usernames :
             DeleteUser(u) => get_user_engine(u) \notin DOMAIN user_dbs']_vars

-----------------------------------------------------------------------------
(* Claims about the project fields after a save, under SpecTotals *)

\* C20: after a save the project fields of the form are back at their initial
\* values: empty name, empty customer, no work hours, no hourly rate, no
\* failed-print filament and no failed-print material.
C20_SaveResetsProjectFields ==
    [][Save => /\ p_name' = ""
               /\ customer_name' = ""
               /\ work_hours' = 0
               /\ work_rate' = 0
               /\ failed_filament_g' = 0
               /\ failed_material' = ""]_vars

-----------------------------------------------------------------------------
(* Claims about project identities and project contents, under SpecLedger *)

\* The ids of the projects a save step adds to the open ledger.
NewIds == (DOMAIN UserDb'.projects) \ (DOMAIN UserDb.projects)

\* C21: project ids are never reused within a ledger.  No step makes the id
\* that the next save will hand out go back to the id of a project the ledger
\* held before the step; and a save never gives the new project the id the
\* session remembers in editing_project_id, which is the id of a project that
\* was loaded from the ledger and therefore existed.
C21_IdsNeverReused ==
    [][(username # NoUser /\ username' = username) =>
          /\ \A p \in DOMAIN UserDb.projects :
                NextRowid(DOMAIN UserDb'.projects) # p
          /\ Save => editing_project_id \notin NewIds]_vars

\* C22: every persisted project has at least one item.  The save button is
\* not there while the draft is empty, and no step takes items away from, or
\* adds items to, a project that stays in its ledger.
C22_ProjectsHaveItems ==
    /\ [](\A f \in DOMAIN user_dbs : \A p \in DOMAIN user_dbs[f].projects :
             ItemsOf(user_dbs[f], p) # {})
    /\ [](current_items = <<>> => ~ENABLED Save)
    /\ [][\A f \in (DOMAIN user_dbs) \cap (DOMAIN user_dbs') :
             \A p \in (DOMAIN user_dbs[f].projects)
                         \cap (DOMAIN user_dbs'[f].projects) :
                /\ ItemsOf(user_dbs'[f], p) = ItemsOf(user_dbs[f], p)
                /\ \A i \in ItemsOf(user_dbs[f], p) :
                      user_dbs'[f].items[i] = user_dbs[f].items[i]]_vars

\* A project has been loaded and its only item removed from the draft: the
\* draft is empty, the stored project still has its item.
C22_Witness ==
    /\ username # NoUser
    /\ editing_project_id = 1
    /\ current_items = <<>>
    /\ 1 \in DOMAIN UserDb.projects
    /\ ItemsOf(UserDb, 1) # {}

-----------------------------------------------------------------------------
(* Claims about the schema upgrade, under SpecMigrate *)

\* after has every column, project and item of before, with the same values.
Extends(before, after) ==
    /\ before.cols \subseteq after.cols
    /\ after.items = before.items
    /\ DOMAIN after.projects = DOMAIN before.projects
    /\ \A p \in DOMAIN before.projects :
          \A c \in DOMAIN before.projects[p] :
             /\ c \in DOMAIN after.projects[p]
             /\ after.projects[p][c] = before.projects[p][c]

\* C23: the schema upgrade of ensure_user_db is additive-only and idempotent.
\* In every state and for every account, opening the account's ledger keeps
\* every column, project and item with its values, leaves every other file
\* alone, adds nothing but the later columns, and opening it a second time
\* changes nothing more; the ledger of a logged-in session, which every
\* script run opens again, is as one more open would leave it.
C23_UpgradeAdditiveIdempotent ==
    /\ \A u \in DOMAIN users :
          LET f      == get_user_engine(u)
              opened == ensure_user_db(user_dbs, u)
          IN  /\ ensure_user_db(opened, u) = opened
              /\ DOMAIN opened = (DOMAIN user_dbs) \cup {f}
              /\ \A g \in (DOMAIN user_dbs) \ {f} : opened[g] = user_dbs[g]
              /\ f \in DOMAIN user_dbs =>
                    /\ Extends(user_dbs[f], opened[f])
                    /\ opened[f].cols \subseteq user_dbs[f].cols \cup AllCols
    /\ username # NoUser => Render(user_dbs, username) = user_dbs

\* A ledger that came with the work-hours column but without the customer
\* column has been opened and used: its old project still has its work hours,
\* reads no customer, and a project saved since is stored next to it.
C23_Witness ==
    /\ username = LegacyUser
    /\ UserDb.cols = AllCols
    /\ 1 \in DOMAIN UserDb.projects
    /\ 2 \in DOMAIN UserDb.projects
    /\ UserDb.projects[1].name = "old"
    /\ UserDb.projects[1].work_hours = 2
    /\ UserDb.projects[1].customer_name = ""
    /\ ItemsOf(UserDb, 1) = {1}

====
